---- MODULE Spec2Model ----
(***************************************************************************)
(* Model of the Controller of the restaurant directory                     *)
(* (src/controller.py): the store collection, the result set               *)
(* filtered_rstrts, the selection cur_index / cur_rstrt, the reference     *)
(* coordinate cur_coord, and one action per public operation.              *)
(*                                                                         *)
(* Representation.                                                         *)
(*   - Python None / an absent key is the empty sequence None; a present   *)
(*     value v is <<v>>.                                                   *)
(*   - A text is a sequence of one-character strings.                      *)
(*   - A restaurant_id is a text of decimal digits, kept as a sequence of  *)
(*     digits 0..9; int() and str() are IntOf and StrOf.                   *)
(*   - A distance is kept in metres (the code rounds kilometres to three   *)
(*     decimals), so 99999.99 km is 99999990.                              *)
(*   - An operation that raises leaves the state as the code has left it   *)
(*     at the raising line; lastOp.raised names the exception.             *)
(***************************************************************************)
EXTENDS Integers, Sequences, FiniteSets, TLC

VARIABLES store, filtered_rstrts, cur_index, cur_rstrt, cur_coord, clock, steps, lastOp,
          progress, worker, lines, line_i, import_docs, gui, observed, imports,
          pending, read_grades

\* The import of a file: the published progress, the worker thread of
\* add_rstrts_from_json with its locals, and the polling loop of the
\* presentation layer with the value it has read last.
importVars == <<progress, worker, lines, line_i, import_docs, gui, observed, imports>>

\* The two store steps of del_grade and a second client reading the store.
readerVars == <<pending, read_grades>>

sideVars == <<importVars, readerVars>>

vars == <<store, filtered_rstrts, cur_index, cur_rstrt, cur_coord, clock, steps, lastOp,
          importVars, readerVars>>

\* ---------------------------------------------------------------- bounds
MaxOps == 5
\* The imports of one session.
MaxImports == 2

\* ------------------------------------------------------------- constants
SENTINEL == 99999990
FLOOR_ID == <<1, 0, 0, 0, 0, 0, 0, 0, 0>>
StartClock == 10

None == <<>>
Some(v) == <<v>>

\* ------------------------------------------------------------ geodistance
\* Controller.geodistance evaluated on the grid Num x Num of whole degrees;
\* the values are those the Python function returns, in metres.
Num == {-1, 0, 1}

GeoTable ==
    <<-1,-1,-1,-1>> :> 0 @@ <<-1,-1,-1,0>> :> 111195 @@ <<-1,-1,-1,1>> :> 222390 @@
    <<-1,-1,0,-1>> :> 111178 @@ <<-1,-1,0,0>> :> 157249 @@ <<-1,-1,0,1>> :> 248637 @@
    <<-1,-1,1,-1>> :> 222356 @@ <<-1,-1,1,0>> :> 248629 @@ <<-1,-1,1,1>> :> 314499 @@
    <<-1,0,-1,-1>> :> 111195 @@ <<-1,0,-1,0>> :> 0 @@ <<-1,0,-1,1>> :> 111195 @@
    <<-1,0,0,-1>> :> 157249 @@ <<-1,0,0,0>> :> 111195 @@ <<-1,0,0,1>> :> 157249 @@
    <<-1,0,1,-1>> :> 248629 @@ <<-1,0,1,0>> :> 222390 @@ <<-1,0,1,1>> :> 248629 @@
    <<-1,1,-1,-1>> :> 222390 @@ <<-1,1,-1,0>> :> 111195 @@ <<-1,1,-1,1>> :> 0 @@
    <<-1,1,0,-1>> :> 248637 @@ <<-1,1,0,0>> :> 157249 @@ <<-1,1,0,1>> :> 111178 @@
    <<-1,1,1,-1>> :> 314499 @@ <<-1,1,1,0>> :> 248629 @@ <<-1,1,1,1>> :> 222356 @@
    <<0,-1,-1,-1>> :> 111178 @@ <<0,-1,-1,0>> :> 157249 @@ <<0,-1,-1,1>> :> 248637 @@
    <<0,-1,0,-1>> :> 0 @@ <<0,-1,0,0>> :> 111195 @@ <<0,-1,0,1>> :> 222390 @@
    <<0,-1,1,-1>> :> 111178 @@ <<0,-1,1,0>> :> 157249 @@ <<0,-1,1,1>> :> 248637 @@
    <<0,0,-1,-1>> :> 157249 @@ <<0,0,-1,0>> :> 111195 @@ <<0,0,-1,1>> :> 157249 @@
    <<0,0,0,-1>> :> 111195 @@ <<0,0,0,0>> :> 0 @@ <<0,0,0,1>> :> 111195 @@
    <<0,0,1,-1>> :> 157249 @@ <<0,0,1,0>> :> 111195 @@ <<0,0,1,1>> :> 157249 @@
    <<0,1,-1,-1>> :> 248637 @@ <<0,1,-1,0>> :> 157249 @@ <<0,1,-1,1>> :> 111178 @@
    <<0,1,0,-1>> :> 222390 @@ <<0,1,0,0>> :> 111195 @@ <<0,1,0,1>> :> 0 @@
    <<0,1,1,-1>> :> 248637 @@ <<0,1,1,0>> :> 157249 @@ <<0,1,1,1>> :> 111178 @@
    <<1,-1,-1,-1>> :> 222356 @@ <<1,-1,-1,0>> :> 248629 @@ <<1,-1,-1,1>> :> 314499 @@
    <<1,-1,0,-1>> :> 111178 @@ <<1,-1,0,0>> :> 157249 @@ <<1,-1,0,1>> :> 248637 @@
    <<1,-1,1,-1>> :> 0 @@ <<1,-1,1,0>> :> 111195 @@ <<1,-1,1,1>> :> 222390 @@
    <<1,0,-1,-1>> :> 248629 @@ <<1,0,-1,0>> :> 222390 @@ <<1,0,-1,1>> :> 248629 @@
    <<1,0,0,-1>> :> 157249 @@ <<1,0,0,0>> :> 111195 @@ <<1,0,0,1>> :> 157249 @@
    <<1,0,1,-1>> :> 111195 @@ <<1,0,1,0>> :> 0 @@ <<1,0,1,1>> :> 111195 @@
    <<1,1,-1,-1>> :> 314499 @@ <<1,1,-1,0>> :> 248629 @@ <<1,1,-1,1>> :> 222356 @@
    <<1,1,0,-1>> :> 248637 @@ <<1,1,0,0>> :> 157249 @@ <<1,1,0,1>> :> 111178 @@
    <<1,1,1,-1>> :> 222390 @@ <<1,1,1,0>> :> 111195 @@ <<1,1,1,1>> :> 0

geodistance(lng1, lat1, lng2, lat2) == GeoTable[<<lng1, lat1, lng2, lat2>>]

\* Python truthiness of a coordinate component: None and 0 are falsy.
Truthy(c) == c # None /\ c[1] # 0

\* ------------------------------------------------------------------ texts
Lower(c) == IF c = "A" THEN "a" ELSE IF c = "B" THEN "b" ELSE c

\* One pattern character against one subject character under option i:
\* "." matches any character, every other character matches itself.
CharMatch(pc, c) == IF pc = "." THEN TRUE ELSE Lower(pc) = Lower(c)

\* A pattern with an unbalanced "(" does not compile.
RegexValid(p) == \A k \in 1..Len(p) : p[k] # "("

\* "(.*)(p)(.*)" searched in s: p matches somewhere in s.
RegexSearch(p, s) ==
    \E off \in 0..(Len(s) - Len(p)) :
        \A k \in 1..Len(p) : CharMatch(p[k], s[off + k])

\* ---------------------------------------------------------------- ids
RECURSIVE IntOf(_)
IntOf(d) == IF d = <<>> THEN 0 ELSE IntOf(SubSeq(d, 1, Len(d) - 1)) * 10 + d[Len(d)]

RECURSIVE StrOf(_)
StrOf(n) == IF n < 10 THEN <<n>> ELSE Append(StrOf(n \div 10), n % 10)

\* Binary string order of the store (character by character, a proper
\* prefix first).
RECURSIVE StrLess(_, _)
StrLess(a, b) ==
    IF a = <<>> THEN b # <<>>
    ELSE IF b = <<>> THEN FALSE
    ELSE IF a[1] # b[1] THEN a[1] < b[1]
    ELSE StrLess(Tail(a), Tail(b))

\* ---------------------------------------------------------------- documents
CoordAbsent == [kind |-> "absent", lng |-> None, lat |-> None]
CoordNull == [kind |-> "null", lng |-> None, lat |-> None]
CoordPair(lng, lat) == [kind |-> "pair", lng |-> lng, lat |-> lat]

EMPTY_RSTRT ==
    [ address |-> [building |-> <<>>, coord |-> CoordPair(None, None),
                   street |-> <<>>, zipcode |-> <<>>],
      borough |-> <<>>, cuisine |-> <<>>, grades |-> <<>>,
      name |-> <<>>, restaurant_id |-> <<>> ]

Untitled == <<"u", "n", "t", "i", "t", "l", "e", "d">>

Doc(id, name, borough, street, zipcode, coord, grades) ==
    [ address |-> [building |-> <<"1">>, coord |-> coord,
                   street |-> street, zipcode |-> zipcode],
      borough |-> borough, cuisine |-> <<"c">>, grades |-> grades,
      name |-> name, restaurant_id |-> id ]

Grade(g, s, d) == [grade |-> g, score |-> s, date |-> d]

\* The documents of the initial stores: coordinates with both components,
\* with a zero component, with no coord key, null, and with one null
\* component; ids of one and of two digits.
DocA ==
    Doc(<<9>>, <<"a", "b">>, <<"B">>, <<"a">>, <<"1">>,
        CoordPair(Some(1), Some(1)), <<Grade("A", 2, 1), Grade("B", 9, 2)>>)
DocB ==
    Doc(<<1, 0>>, <<"A">>, <<"b">>, <<"b">>, <<"1">>,
        CoordPair(Some(0), Some(1)), <<>>)
DocC ==
    Doc(<<8>>, <<"b", "a">>, <<"a">>, <<"a", "b">>, <<"2">>,
        CoordPair(Some(-1), Some(-1)), <<Grade("A", 5, 3)>>)
DocD ==
    Doc(<<7>>, <<"b">>, <<"a">>, <<"a">>, <<"2">>, CoordAbsent, <<>>)
DocE ==
    Doc(<<1, 1>>, <<"a">>, <<"B">>, <<"b">>, <<"1">>, CoordNull, <<>>)
DocF ==
    Doc(<<6>>, <<"a", "a">>, <<"a">>, <<"b">>, <<"1">>,
        CoordPair(None, Some(1)), <<>>)

Ids(seq) == {seq[i].restaurant_id : i \in 1..Len(seq)}

InitStores ==
    { <<>>,
      <<DocA, DocC>>,
      <<DocA, DocB>>,
      <<DocE, DocA, DocC>>,
      <<DocC, DocD>>,
      <<DocF, DocA>> }

\* The reference coordinates a session may have been started with.
RefCoords == {<<0, 0>>, <<1, -1>>}

\* ------------------------------------------------------------------ store
\* The collection is the sequence of its documents in natural (insertion)
\* order, with a unique index on restaurant_id.
Find(col, id) == SelectSeq(col, LAMBDA d : d.restaurant_id = id)

\* update_one: the first document with the id is replaced by f(document).
UpdateOne(col, id, f(_)) ==
    [i \in 1..Len(col) |->
        IF col[i].restaurant_id = id
           /\ \A j \in 1..(i - 1) : col[j].restaurant_id # id
        THEN f(col[i]) ELSE col[i]]

\* Mutant of DeleteMany: the collection is emptied.
DeleteMany_all(col, ids) == SelectSeq(col, LAMBDA d : FALSE)

\* delete_many / delete_one by restaurant_id.
DeleteMany(col, ids) == SelectSeq(col, LAMBDA d : d.restaurant_id \notin ids)

\* find_one(sort=[('restaurant_id', -1)]): the document whose id is last
\* in the store's string order.
MaxIdDoc(col) ==
    CHOOSE d \in {col[i] : i \in 1..Len(col)} :
        \A i \in 1..Len(col) : ~StrLess(d.restaurant_id, col[i].restaurant_id)

\* ------------------------------------------------------------- result set
Entry(id, name, dist) == [restaurant_id |-> id, name |-> name, dist |-> dist]

\* The key of list.sort in update_rstrts and edit_coord.
SortKey(r) == r.dist[1]

\* list.sort(key=...): a stable sort, ascending.
RECURSIVE InsertSorted(_, _)
InsertSorted(sorted, r) ==
    IF sorted = <<>> THEN <<r>>
    ELSE IF SortKey(sorted[Len(sorted)]) <= SortKey(r) THEN Append(sorted, r)
    ELSE Append(InsertSorted(SubSeq(sorted, 1, Len(sorted) - 1), r), sorted[Len(sorted)])

\* Mutant of SortByDist: the sort is left out.
SortByDist_none(seq) == seq

RECURSIVE SortByDist(_)
SortByDist(seq) ==
    IF seq = <<>> THEN <<>>
    ELSE InsertSorted(SortByDist(SubSeq(seq, 1, Len(seq) - 1)), seq[Len(seq)])

\* Lines 81-84: the distance of a projected coordinate from the reference.
DistOf(coord, ref) ==
    IF coord.kind = "pair" /\ Truthy(coord.lng) /\ Truthy(coord.lat)
    THEN geodistance(coord.lng[1], coord.lat[1], ref[1], ref[2])
    ELSE SENTINEL

\* ----------------------------------------------------------------- search
Keys == {"name", "borough", "street", "zipcode"}

FieldOf(doc, k) ==
    CASE k = "name" -> doc.name
      [] k = "borough" -> doc.borough
      [] k = "street" -> doc.address.street
      [] k = "zipcode" -> doc.address.zipcode

\* condition.__contains__(k) and not condition[k] == ""
Constrained(condition, k) == condition[k] # None /\ condition[k][1] # <<>>

QueryValid(condition) ==
    \A k \in Keys : Constrained(condition, k) => RegexValid(condition[k][1])

Matches(doc, condition) ==
    \A k \in Keys :
        Constrained(condition, k) => RegexSearch(condition[k][1], FieldOf(doc, k))

\* mycol.find(query, projection) as a list, in natural order.
FindMatching(col, condition) == SelectSeq(col, LAMBDA d : Matches(d, condition))

\* The first position whose projected address has no coord key (the loop
\* raises KeyError there), or 0.
FirstAbsent(found) ==
    IF \E i \in 1..Len(found) : found[i].address.coord.kind = "absent"
    THEN CHOOSE i \in 1..Len(found) :
            /\ found[i].address.coord.kind = "absent"
            /\ \A j \in 1..(i - 1) : found[j].address.coord.kind # "absent"
    ELSE 0

\* The list after the loop of lines 78-84 over found, stopped at position
\* stop (0: not stopped): entries from stop on have no dist yet.
Measured(found, ref, stop) ==
    [i \in 1..Len(found) |->
        Entry(found[i].restaurant_id, found[i].name,
              IF stop = 0 \/ i < stop
              THEN Some(DistOf(found[i].address.coord, ref)) ELSE None)]

\* The result set update_rstrts leaves, when the query is valid.
SearchResult(col, condition, ref) ==
    LET found == FindMatching(col, condition)
        stop == FirstAbsent(found)
    IN IF stop = 0 THEN SortByDist(Measured(found, ref, 0))
       ELSE Measured(found, ref, stop)

NoCond == [name |-> None, borough |-> None, street |-> None, zipcode |-> None]

Cond(n, b, s, z) == [name |-> n, borough |-> b, street |-> s, zipcode |-> z]

Conditions ==
    { NoCond,
      Cond(Some(<<>>), Some(<<>>), Some(<<>>), Some(<<>>)),
      Cond(Some(<<"A">>), None, None, None),
      Cond(Some(<<"a", "B">>), Some(<<>>), Some(<<>>), Some(<<>>)),
      Cond(Some(<<".">>), None, None, Some(<<"1">>)),
      Cond(Some(<<"(">>), None, None, None),
      Cond(None, Some(<<"b">>), Some(<<"A">>), None) }

Op(op, idx, cond, raised) == [op |-> op, idx |-> idx, cond |-> cond, raised |-> raised]

\* --------------------------------------------------------------- progress
\* A rate is the fraction Python computes, kept in lowest terms as
\* <<numerator, denominator>>, so that equal floats are equal rates.
RECURSIVE GCD(_, _)
GCD(a, b) == IF b = 0 THEN a ELSE GCD(b, a % b)

Rate(n, d) == <<n \div GCD(n, d), d \div GCD(n, d)>>

Progress(state, rate) == [state |-> state, rate |-> rate]

\* init_progress(): self.progress = (False, 0)
init_progress == Progress(FALSE, Rate(0, 1))

\* close_progress(): self.progress = (True, 1)
close_progress == Progress(TRUE, Rate(1, 1))

Init ==
    /\ progress = init_progress
    /\ worker = "none"
    /\ lines = <<>>
    /\ line_i = 0
    /\ import_docs = <<>>
    /\ gui = "idle"
    /\ observed = None
    /\ imports = 0
    /\ pending = None
    /\ read_grades = None
    /\ store \in InitStores
    /\ filtered_rstrts = <<>>
    /\ cur_index = None
    /\ cur_rstrt = None
    /\ cur_coord \in RefCoords
    /\ clock = StartClock
    /\ steps = 0
    /\ lastOp = Op("init", None, NoCond, "none")

\* update_rstrts(condition)
update_rstrts(condition) ==
    /\ steps < MaxOps
    /\ steps' = steps + 1
    /\ UNCHANGED sideVars
    /\ IF ~QueryValid(condition)
       THEN /\ filtered_rstrts' = filtered_rstrts
            /\ lastOp' = Op("update_rstrts", None, condition, "OperationFailure")
       ELSE /\ filtered_rstrts' = SearchResult(store, condition, cur_coord)
            /\ lastOp' = Op("update_rstrts", None, condition,
                            IF FirstAbsent(FindMatching(store, condition)) = 0
                            THEN "none" ELSE "KeyError")
    /\ UNCHANGED <<store, cur_index, cur_rstrt, cur_coord, clock>>

\* Mutant of SelectedRecord: the record is fetched by position in the store
\* instead of by the id of the entry.
SelectedRecord_bypos(col, rstrts, index) ==
    IF index = None \/ index[1] >= Len(rstrts) \/ index[1] >= Len(col) THEN None
    ELSE Some(col[index[1] + 1])

\* Lines 57-59: the record update_cur_rstrt fetches for an index.
SelectedRecord(col, rstrts, index) ==
    IF index = None \/ index[1] >= Len(rstrts) THEN None
    ELSE LET res == Find(col, rstrts[index[1] + 1].restaurant_id)
         IN IF res = <<>> THEN None ELSE Some(res[1])

\* update_cur_rstrt(index)
update_cur_rstrt(index) ==
    /\ steps < MaxOps
    /\ steps' = steps + 1
    /\ UNCHANGED sideVars
    /\ cur_index' = index
    /\ cur_rstrt' = SelectedRecord(store, filtered_rstrts, index)
    /\ lastOp' = Op("update_cur_rstrt", index, NoCond,
                    IF index # None /\ cur_rstrt' = None THEN "IndexError" ELSE "none")
    /\ UNCHANGED <<store, filtered_rstrts, cur_coord, clock>>

\* ------------------------------------------------------------------ edits
HasCur == cur_rstrt # None
CurId == cur_rstrt[1].restaurant_id

InfoDocs(n, c, b) == [name |-> n, cuisine |-> c, borough |-> b]

\* Mutant of PatchInfo: the three fields are replaced, a field that was not
\* given becoming empty.
PatchInfo_replace(rec, docs) ==
    [rec EXCEPT !.name = IF docs.name # None THEN docs.name[1] ELSE <<>>,
                !.cuisine = IF docs.cuisine # None THEN docs.cuisine[1] ELSE <<>>,
                !.borough = IF docs.borough # None THEN docs.borough[1] ELSE <<>>]

\* {'$set': docs} and dict.update(docs) on the top-level fields.
PatchInfo(rec, docs) ==
    [rec EXCEPT !.name = IF docs.name # None THEN docs.name[1] ELSE @,
                !.cuisine = IF docs.cuisine # None THEN docs.cuisine[1] ELSE @,
                !.borough = IF docs.borough # None THEN docs.borough[1] ELSE @]

InfoInputs ==
    { InfoDocs(Some(<<"B", "a">>), Some(<<"c">>), Some(<<"a">>)),
      InfoDocs(None, Some(<<"d">>), None) }

\* edit_info(docs)
edit_info(docs) ==
    /\ steps < MaxOps
    /\ steps' = steps + 1
    /\ UNCHANGED sideVars
    /\ lastOp' = Op("edit_info", None, NoCond, "none")
    /\ IF ~HasCur
       THEN UNCHANGED <<store, cur_rstrt>>
       ELSE /\ store' = UpdateOne(store, CurId, LAMBDA d : PatchInfo(d, docs))
            /\ cur_rstrt' = Some(PatchInfo(cur_rstrt[1], docs))
    /\ UNCHANGED <<filtered_rstrts, cur_index, cur_coord, clock>>

AddressDocs(b, s, z) == [building |-> b, street |-> s, zipcode |-> z]

\* docs.update({'coord': ...}); docs = {'address': docs}
NewAddress(docs, coord) ==
    [building |-> docs.building, coord |-> coord,
     street |-> docs.street, zipcode |-> docs.zipcode]

SetAddress(rec, address) == [rec EXCEPT !.address = address]

AddressInputs == { AddressDocs(<<"2">>, <<"A", "b">>, <<"1">>) }

\* edit_address(docs)
edit_address(docs) ==
    /\ steps < MaxOps
    /\ steps' = steps + 1
    /\ UNCHANGED sideVars
    /\ IF ~HasCur
       THEN /\ lastOp' = Op("edit_address", None, NoCond, "none")
            /\ UNCHANGED <<store, cur_rstrt>>
       ELSE IF cur_rstrt[1].address.coord.kind = "absent"
       THEN /\ lastOp' = Op("edit_address", None, NoCond, "KeyError")
            /\ UNCHANGED <<store, cur_rstrt>>
       ELSE LET address == NewAddress(docs, cur_rstrt[1].address.coord)
            IN /\ lastOp' = Op("edit_address", None, NoCond, "none")
               /\ store' = UpdateOne(store, CurId, LAMBDA d : SetAddress(d, address))
               /\ cur_rstrt' = Some(SetAddress(cur_rstrt[1], address))
    /\ UNCHANGED <<filtered_rstrts, cur_index, cur_coord, clock>>

\* {'$set': {'address.coord': [lng, lat]}} and the assignment of line 109.
SetCoord(rec, lng, lat) == [rec EXCEPT !.address.coord = CoordPair(lng, lat)]

\* Lines 112-115: the distance edit_coord gives the entry.
EditedDist(lng, lat, ref) ==
    IF Truthy(lng) /\ Truthy(lat)
    THEN geodistance(lng[1], lat[1], ref[1], ref[2])
    ELSE SENTINEL

HasEntry(rstrts, id) == \E i \in 1..Len(rstrts) : rstrts[i].restaurant_id = id

FirstEntry(rstrts, id) ==
    CHOOSE i \in 1..Len(rstrts) :
        /\ rstrts[i].restaurant_id = id
        /\ \A j \in 1..(i - 1) : rstrts[j].restaurant_id # id

\* Lines 110-116: the first entry with the id gets the new distance.
PatchDist(rstrts, id, dist) ==
    [rstrts EXCEPT ![FirstEntry(rstrts, id)].dist = Some(dist)]

AllHaveDist(rstrts) == \A i \in 1..Len(rstrts) : rstrts[i].dist # None

CoordInputs ==
    { <<None, None>>, <<Some(0), Some(1)>>, <<Some(1), Some(-1)>>, <<None, Some(1)>> }

\* edit_coord(lng, lat)
edit_coord(lng, lat) ==
    /\ steps < MaxOps
    /\ steps' = steps + 1
    /\ UNCHANGED sideVars
    /\ IF ~HasCur
       THEN /\ lastOp' = Op("edit_coord", None, NoCond, "none")
            /\ UNCHANGED <<store, cur_rstrt, filtered_rstrts>>
       ELSE /\ store' = UpdateOne(store, CurId, LAMBDA d : SetCoord(d, lng, lat))
            /\ cur_rstrt' = Some(SetCoord(cur_rstrt[1], lng, lat))
            /\ IF HasEntry(filtered_rstrts, CurId)
               THEN /\ filtered_rstrts' =
                          PatchDist(filtered_rstrts, CurId, EditedDist(lng, lat, cur_coord))
                    /\ lastOp' = Op("edit_coord", None, NoCond, "none")
               ELSE IF AllHaveDist(filtered_rstrts)
               THEN /\ filtered_rstrts' = SortByDist(filtered_rstrts)
                    /\ lastOp' = Op("edit_coord", None, NoCond, "none")
               ELSE /\ filtered_rstrts' = filtered_rstrts
                    /\ lastOp' = Op("edit_coord", None, NoCond, "KeyError")
    /\ UNCHANGED <<cur_index, cur_coord, clock>>

\* ---------------------------------------------------------------- deletes
\* del_all()
del_all ==
    /\ steps < MaxOps
    /\ steps' = steps + 1
    /\ UNCHANGED sideVars
    /\ lastOp' = Op("del_all", None, NoCond, "none")
    /\ store' = DeleteMany(store, Ids(filtered_rstrts))
    /\ filtered_rstrts' = <<>>
    /\ cur_rstrt' = None
    /\ UNCHANGED <<cur_index, cur_coord, clock>>

\* Lines 127-130: the first entry with the id is deleted from the list.
RemoveEntry(rstrts, id) ==
    IF HasEntry(rstrts, id)
    THEN LET k == FirstEntry(rstrts, id)
         IN SubSeq(rstrts, 1, k - 1) \o SubSeq(rstrts, k + 1, Len(rstrts))
    ELSE rstrts

\* del_rstrt()
del_rstrt ==
    /\ steps < MaxOps
    /\ steps' = steps + 1
    /\ UNCHANGED sideVars
    /\ lastOp' = Op("del_rstrt", None, NoCond, "none")
    /\ IF ~HasCur
       THEN UNCHANGED <<store, filtered_rstrts, cur_rstrt>>
       ELSE /\ store' = DeleteMany(store, {CurId})
            /\ filtered_rstrts' = RemoveEntry(filtered_rstrts, CurId)
            /\ cur_rstrt' = None
    /\ UNCHANGED <<cur_index, cur_coord, clock>>

\* ----------------------------------------------------------------- create
\* get_max_id(): the id of the last document in string order; the floor
\* when the collection is empty (find_one returns None) or the read raises
\* (readable is FALSE), both caught by the except of line 145.
get_max_id(col, readable) ==
    IF ~readable \/ col = <<>> THEN FLOOR_ID ELSE MaxIdDoc(col).restaurant_id

NewRecord(col, readable) ==
    [EMPTY_RSTRT EXCEPT !.name = Untitled,
                        !.restaurant_id = StrOf(IntOf(get_max_id(col, readable)) + 1)]

\* new_rstrt(), with the store's read of the maximal id succeeding or not
new_rstrt(readable) ==
    LET new_r == NewRecord(store, readable)
    IN /\ steps < MaxOps
       /\ steps' = steps + 1
       /\ UNCHANGED sideVars
       /\ filtered_rstrts' =
             <<Entry(new_r.restaurant_id, new_r.name, None)>> \o filtered_rstrts
       /\ IF new_r.restaurant_id \in Ids(store)
          THEN /\ store' = store
               /\ lastOp' = Op("new_rstrt", None, NoCond, "DuplicateKeyError")
          ELSE /\ store' = Append(store, new_r)
               /\ lastOp' = Op("new_rstrt", None, NoCond, "none")
       /\ UNCHANGED <<cur_index, cur_rstrt, cur_coord, clock>>

\* ----------------------------------------------------------------- grades
\* Mutant of PushGrade: the grade is put first.
PushGrade_front(rec, g) == [rec EXCEPT !.grades = <<g>> \o @]

\* {'$push': {'grades': g}} and list.append(g)
PushGrade(rec, g) == [rec EXCEPT !.grades = Append(@, g)]

GradeInputs == { <<"A", 7>> }

\* add_grade(grade, score)
add_grade(grade, score) ==
    /\ steps < MaxOps
    /\ steps' = steps + 1
    /\ UNCHANGED sideVars
    /\ lastOp' = Op("add_grade", None, NoCond, "none")
    /\ IF ~HasCur
       THEN UNCHANGED <<store, cur_rstrt, clock>>
       ELSE LET tm == clock
            IN /\ clock' = clock + 1
               /\ store' = UpdateOne(store, CurId,
                                     LAMBDA d : PushGrade(d, Grade(grade, score, tm)))
               /\ cur_rstrt' = Some(PushGrade(cur_rstrt[1], Grade(grade, score, tm)))
    /\ UNCHANGED <<filtered_rstrts, cur_index, cur_coord>>

\* The null a position holds between the two store steps of del_grade.
NullGrade == Grade("null", 0, 0)

\* Mutant of UnsetGrade: the position is taken out at once.
UnsetGrade_remove(rec, index) ==
    [rec EXCEPT !.grades = SubSeq(@, 1, index) \o SubSeq(@, index + 2, Len(@))]

\* {'$unset': {'grades.<index>': 1}}: the position is set to null; a
\* position past the end is left alone.
UnsetGrade(rec, index) ==
    IF index < Len(rec.grades)
    THEN [rec EXCEPT !.grades[index + 1] = NullGrade] ELSE rec

\* {'$pull': {'grades': None}}
PullNull(rec) == [rec EXCEPT !.grades = SelectSeq(@, LAMBDA g : g # NullGrade)]

\* Mutant of DelAt: the first grade is deleted whatever the index.
DelAt_first(rec, index) == [rec EXCEPT !.grades = Tail(@)]

\* Mutant of DelAt: the last grade is deleted whatever the index.
DelAt_last(rec, index) ==
    [rec EXCEPT !.grades = SubSeq(@, 1, Len(@) - 1)]

\* del rstrt["grades"][index]
DelAt(rec, index) ==
    [rec EXCEPT !.grades = SubSeq(@, 1, index) \o SubSeq(@, index + 2, Len(@))]

\* Mutant of del_grade: the test for a selection is left out, so that
\* without one the read of rstrt["restaurant_id"] raises.
del_grade_unguarded(index) ==
    /\ steps < MaxOps
    /\ steps' = steps + 1
    /\ UNCHANGED sideVars
    /\ IF ~HasCur
       THEN /\ lastOp' = Op("del_grade", Some(index), NoCond, "TypeError")
            /\ UNCHANGED <<store, cur_rstrt>>
       ELSE /\ store' = UpdateOne(store, CurId, LAMBDA d : PullNull(UnsetGrade(d, index)))
            /\ IF index < Len(cur_rstrt[1].grades)
               THEN /\ cur_rstrt' = Some(DelAt(cur_rstrt[1], index))
                    /\ lastOp' = Op("del_grade", Some(index), NoCond, "none")
               ELSE /\ cur_rstrt' = cur_rstrt
                    /\ lastOp' = Op("del_grade", Some(index), NoCond, "IndexError")
    /\ UNCHANGED <<filtered_rstrts, cur_index, cur_coord, clock>>

\* del_grade(index)
del_grade(index) ==
    /\ steps < MaxOps
    /\ steps' = steps + 1
    /\ UNCHANGED sideVars
    /\ IF ~HasCur
       THEN /\ lastOp' = Op("del_grade", Some(index), NoCond, "none")
            /\ UNCHANGED <<store, cur_rstrt>>
       ELSE /\ store' = UpdateOne(store, CurId, LAMBDA d : PullNull(UnsetGrade(d, index)))
            /\ IF index < Len(cur_rstrt[1].grades)
               THEN /\ cur_rstrt' = Some(DelAt(cur_rstrt[1], index))
                    /\ lastOp' = Op("del_grade", Some(index), NoCond, "none")
               ELSE /\ cur_rstrt' = cur_rstrt
                    /\ lastOp' = Op("del_grade", Some(index), NoCond, "IndexError")
    /\ UNCHANGED <<filtered_rstrts, cur_index, cur_coord, clock>>

GradeIndexes == 0..2

Next ==
    \/ \E condition \in Conditions : update_rstrts(condition)
    \/ \E index \in {None} \cup {Some(i) : i \in 0..Len(filtered_rstrts)} :
          update_cur_rstrt(index)
    \/ \E docs \in InfoInputs : edit_info(docs)
    \/ \E docs \in AddressInputs : edit_address(docs)
    \/ \E c \in CoordInputs : edit_coord(c[1], c[2])
    \/ del_all
    \/ del_rstrt
    \/ \E readable \in BOOLEAN : new_rstrt(readable)
    \/ \E g \in GradeInputs : add_grade(g[1], g[2])
    \/ \E index \in GradeIndexes : del_grade(index)

Spec == Init /\ [][Next]_vars

\* ----------------------------------------------------------------- import
\* A line of the imported file: whether json.loads accepts it, whether the
\* object has the key "grades", and the object itself. A grade's date is
\* Some(d) when it is the object {"$date": d} and None when it is anything
\* else, on which grade["date"]["$date"] raises.
Line(json, grades_key, data) == [json |-> json, grades_key |-> grades_key, data |-> data]

\* Lines 33-36: whether the loop body runs through for the line.
LineLoads(line) ==
    /\ line.json
    /\ line.grades_key
    /\ \A k \in 1..Len(line.data.grades) : line.data.grades[k].date # None

\* Line 36: grade["date"] = grade["date"]["$date"] + 0.0
Unwrapped(data) ==
    [data EXCEPT !.grades =
        [k \in 1..Len(@) |-> [@[k] EXCEPT !.date = @[1]]]]

\* Objects of imported files: a new id, the same new id again under another
\* name, another new id, and the id of DocA under another name.
ImpNew ==
    Doc(<<1, 2>>, <<"n">>, <<"a">>, <<"a">>, <<"1">>,
        CoordPair(Some(1), Some(0)), <<Grade("A", 3, Some(4))>>)
ImpAgain ==
    Doc(<<1, 2>>, <<"m">>, <<"a">>, <<"a">>, <<"1">>,
        CoordPair(Some(1), Some(1)), <<>>)
ImpOther ==
    Doc(<<5>>, <<"b", "b">>, <<"b">>, <<"a">>, <<"2">>,
        CoordPair(Some(-1), Some(1)), <<Grade("B", 1, Some(5)), Grade("A", 2, Some(6))>>)
ImpDupA ==
    Doc(<<9>>, <<"z">>, <<"a">>, <<"a">>, <<"1">>,
        CoordPair(Some(0), Some(0)), <<>>)
ImpBareDate ==
    Doc(<<4>>, <<"d">>, <<"a">>, <<"a">>, <<"1">>,
        CoordPair(Some(1), Some(1)), <<Grade("A", 3, None)>>)

\* read_json_file(json_file): the lines of the files a user may pick.
ImportFiles ==
    { <<>>,
      <<Line(TRUE, TRUE, ImpDupA), Line(TRUE, TRUE, ImpNew)>>,
      <<Line(TRUE, TRUE, ImpNew), Line(TRUE, TRUE, ImpAgain), Line(TRUE, TRUE, ImpOther)>>,
      <<Line(TRUE, TRUE, ImpOther), Line(FALSE, FALSE, EMPTY_RSTRT)>>,
      <<Line(TRUE, FALSE, ImpAgain)>>,
      <<Line(TRUE, TRUE, ImpOther), Line(TRUE, TRUE, ImpBareDate)>> }

\* Mutant of LineProgress: the fraction of the lines still to come.
LineProgress_down(i, n) == Progress(FALSE, Rate(n - i, n))

\* Line 32: self.progress = (False, i/len(lines))
LineProgress(i, n) == Progress(FALSE, Rate(i, n))

RECURSIVE PickedFrom(_, _, _)
PickedFrom(batch, W, k) ==
    IF k > Len(batch) THEN <<>>
    ELSE (IF k \in W THEN <<batch[k]>> ELSE <<>>) \o PickedFrom(batch, W, k + 1)

\* Mutant of InsertMany: an ordered insert, which stops at the first
\* document whose id the collection holds.
InsertMany_ordered(col, batch) ==
    { col \o SubSeq(batch, 1,
                    IF \E k \in 1..Len(batch) : batch[k].restaurant_id \in Ids(col)
                    THEN (CHOOSE k \in 1..Len(batch) :
                             /\ batch[k].restaurant_id \in Ids(col)
                             /\ \A j \in 1..(k - 1) : batch[j].restaurant_id \notin Ids(col)) - 1
                    ELSE Len(batch)) }

\* insert_many(docs, ordered=False) under the unique index on
\* restaurant_id: every document whose id the collection does not hold is
\* inserted unless a document of the batch with the same id is; which of
\* several documents of the batch with one id is inserted is the server's
\* choice. The collections the call may leave.
InsertMany(col, batch) ==
    { col \o PickedFrom(batch, W, 1) :
        W \in { V \in SUBSET (1..Len(batch)) :
                  /\ \A k \in V : batch[k].restaurant_id \notin Ids(col)
                  /\ \A k \in 1..Len(batch) :
                        batch[k].restaurant_id \notin Ids(col)
                        => Cardinality({j \in V : batch[j].restaurant_id
                                                  = batch[k].restaurant_id}) = 1 } }

\* import_rstrt(), lines 527-531: the progress is reset, the worker thread
\* is started on the chosen file and the polling loop is entered.
import_rstrt(file) ==
    /\ gui = "idle"
    /\ imports < MaxImports
    /\ imports' = imports + 1
    /\ progress' = init_progress
    /\ worker' = "reading"
    /\ lines' = file
    /\ line_i' = 0
    /\ import_docs' = <<>>
    /\ gui' = "polling"
    /\ observed' = None
    /\ UNCHANGED <<store, filtered_rstrts, cur_index, cur_rstrt, cur_coord, clock,
                   steps, lastOp, readerVars>>

\* add_rstrts_from_json, lines 28-30: the file is read.
add_rstrts_read ==
    /\ worker = "reading"
    /\ worker' = "looping"
    /\ UNCHANGED <<store, filtered_rstrts, cur_index, cur_rstrt, cur_coord, clock,
                   steps, lastOp, readerVars,
                   progress, lines, line_i, import_docs, gui, observed, imports>>

\* add_rstrts_from_json, lines 31-38: one turn of the loop. A line that
\* does not load raises in the worker thread, which ends there.
add_rstrts_line ==
    /\ worker = "looping"
    /\ line_i < Len(lines)
    /\ progress' = LineProgress(line_i, Len(lines))
    /\ IF LineLoads(lines[line_i + 1])
       THEN /\ import_docs' = Append(import_docs, Unwrapped(lines[line_i + 1].data))
            /\ line_i' = line_i + 1
            /\ worker' = worker
       ELSE /\ worker' = "raised"
            /\ UNCHANGED <<import_docs, line_i>>
    /\ UNCHANGED <<store, filtered_rstrts, cur_index, cur_rstrt, cur_coord, clock,
                   steps, lastOp, readerVars, lines, gui, observed, imports>>

\* add_rstrts_from_json, lines 39-42: the batch is inserted; whatever
\* insert_many raises (an empty batch, duplicate ids) is swallowed.
add_rstrts_insert ==
    /\ worker = "looping"
    /\ line_i = Len(lines)
    /\ store' \in InsertMany(store, import_docs)
    /\ worker' = "closing"
    /\ UNCHANGED <<filtered_rstrts, cur_index, cur_rstrt, cur_coord, clock,
                   steps, lastOp, readerVars,
                   progress, lines, line_i, import_docs, gui, observed, imports>>

\* add_rstrts_from_json, line 43: self.close_progress()
add_rstrts_close ==
    /\ worker = "closing"
    /\ progress' = close_progress
    /\ worker' = "returned"
    /\ UNCHANGED <<store, filtered_rstrts, cur_index, cur_rstrt, cur_coord, clock,
                   steps, lastOp, readerVars,
                   lines, line_i, import_docs, gui, observed, imports>>

\* import_rstrt(), lines 532-537: one turn of the polling loop.
import_rstrt_poll ==
    /\ gui = "polling"
    /\ observed' = Some(progress)
    /\ gui' = IF progress.state THEN "refreshing" ELSE "polling"
    /\ UNCHANGED <<store, filtered_rstrts, cur_index, cur_rstrt, cur_coord, clock,
                   steps, lastOp, readerVars,
                   progress, worker, lines, line_i, import_docs, imports>>

\* import_rstrt(), lines 538-541: after the loop the whole store is listed.
import_rstrt_refresh ==
    /\ gui = "refreshing"
    /\ gui' = "idle"
    /\ filtered_rstrts' = SearchResult(store, NoCond, cur_coord)
    /\ lastOp' = Op("update_rstrts", None, NoCond,
                    IF FirstAbsent(FindMatching(store, NoCond)) = 0
                    THEN "none" ELSE "KeyError")
    /\ UNCHANGED <<store, cur_index, cur_rstrt, cur_coord, clock, steps, readerVars,
                   progress, worker, lines, line_i, import_docs, observed, imports>>

WorkerStep == add_rstrts_read \/ add_rstrts_line \/ add_rstrts_insert \/ add_rstrts_close

PollStep == import_rstrt_poll \/ import_rstrt_refresh

NextImport ==
    \/ \E file \in ImportFiles : import_rstrt(file)
    \/ add_rstrts_read
    \/ add_rstrts_line
    \/ add_rstrts_insert
    \/ add_rstrts_close
    \/ import_rstrt_poll
    \/ import_rstrt_refresh

\* The worker is a thread of its own and the polling loop runs in the main
\* thread: each goes on taking its steps.
SpecImport ==
    Init /\ [][NextImport]_vars /\ WF_vars(WorkerStep) /\ WF_vars(PollStep)

\* ------------------------------------------------- edit of the coordinate
\* The value of a decimal digit; -1 for any other character.
DigitOf(c) ==
    CASE c = "0" -> 0 [] c = "1" -> 1 [] c = "8" -> 8 [] c = "9" -> 9 [] OTHER -> -1

\* float(text) on the texts the boxes are given: the number a text of
\* digits denotes, None when float raises (no digit, or another character).
FloatOf(text) ==
    IF text = <<>> \/ \E k \in 1..Len(text) : DigitOf(text[k]) < 0 THEN None
    ELSE Some(IntOf([k \in 1..Len(text) |-> DigitOf(text[k])]))

\* Lines 613-630 and 632-649 of gui.py: the value read from one entry box.
\* An empty box gives None; the last character is the hemisphere (east or
\* north for pos), the rest the magnitude, between 0 and max. The result is
\* [raised, value].
BoxValue(text, pos, neg, max) ==
    IF text = <<>> THEN [raised |-> FALSE, value |-> None]
    ELSE LET last == text[Len(text)]
             var == FloatOf(SubSeq(text, 1, Len(text) - 1))
         IN IF last \notin {pos, Lower(pos), neg, Lower(neg)} \/ var = None
               \/ var[1] < 0 \/ var[1] > max
            THEN [raised |-> TRUE, value |-> None]
            ELSE [raised |-> FALSE,
                  value |-> Some((IF last \in {pos, Lower(pos)} THEN 1 ELSE -1) * var[1])]

LngTexts ==
    { <<>>, <<"1", "E">>, <<"1", "w">>, <<"0", "E">>, <<"1", "8", "1", "E">>, <<"1", "N">> }
LatTexts == { <<>>, <<"1", "N">>, <<"1", "s">>, <<"9", "1", "N">>, <<"N">>, <<"1", "1">> }

\* edit_rstrt_coord(): the two boxes are read and, unless one of them is
\* rejected, edit_coord is called with the two values.
edit_rstrt_coord(lng, lat) ==
    LET lng_var == BoxValue(lng, "E", "W", 180)
        lat_var == BoxValue(lat, "N", "S", 90)
    IN IF lng_var.raised \/ lat_var.raised
       THEN /\ steps < MaxOps
            /\ steps' = steps + 1
            /\ lastOp' = Op("edit_rstrt_coord", None, NoCond, "Exception")
            /\ UNCHANGED <<store, filtered_rstrts, cur_index, cur_rstrt, cur_coord,
                           clock, sideVars>>
       ELSE edit_coord(lng_var.value, lat_var.value)

\* The operations of a session in which the coordinate is edited through
\* the callback.
NextGui ==
    \/ \E condition \in Conditions : update_rstrts(condition)
    \/ \E index \in {None} \cup {Some(i) : i \in 0..Len(filtered_rstrts)} :
          update_cur_rstrt(index)
    \/ \E lng \in LngTexts, lat \in LatTexts : edit_rstrt_coord(lng, lat)
    \/ \E readable \in BOOLEAN : new_rstrt(readable)
    \/ del_rstrt

\* Both components of a coordinate are there or neither is.
Paired(c) == c.kind = "pair" => (c.lng = None <=> c.lat = None)

\* A session on a store whose coordinates are all paired.
InitGui == Init /\ \A i \in 1..Len(store) : Paired(store[i].address.coord)

SpecGui == InitGui /\ [][NextGui]_vars

\* ------------------------------------------- del_grade, step by step
\* The grades the store holds for the selected record.
StoredGrades ==
    IF Find(store, CurId) = <<>> THEN <<>> ELSE Find(store, CurId)[1].grades

\* del_grade(index), lines 165-168: the first store step, the $unset.
\* pending keeps the index and the grades the store held before it.
del_grade_unset(index) ==
    /\ pending = None
    /\ HasCur
    /\ steps < MaxOps
    /\ steps' = steps + 1
    /\ store' = UpdateOne(store, CurId, LAMBDA d : UnsetGrade(d, index))
    /\ pending' = Some([index |-> index, before |-> StoredGrades])
    /\ UNCHANGED <<filtered_rstrts, cur_index, cur_rstrt, cur_coord, clock, lastOp,
                   importVars, read_grades>>

\* del_grade(index), lines 169-173: the second store step, the $pull, and
\* the deletion from the grades of cur_rstrt.
del_grade_pull ==
    /\ pending # None
    /\ store' = UpdateOne(store, CurId, LAMBDA d : PullNull(d))
    /\ IF pending[1].index < Len(cur_rstrt[1].grades)
       THEN /\ cur_rstrt' = Some(DelAt(cur_rstrt[1], pending[1].index))
            /\ lastOp' = Op("del_grade", Some(pending[1].index), NoCond, "none")
       ELSE /\ cur_rstrt' = cur_rstrt
            /\ lastOp' = Op("del_grade", Some(pending[1].index), NoCond, "IndexError")
    /\ pending' = None
    /\ UNCHANGED <<filtered_rstrts, cur_index, cur_coord, clock, steps,
                   importVars, read_grades>>

\* Another client of the store reads the grades of the selected record.
read_store ==
    /\ HasCur
    /\ Find(store, CurId) # <<>>
    /\ read_grades' = Some(StoredGrades)
    /\ UNCHANGED <<store, filtered_rstrts, cur_index, cur_rstrt, cur_coord, clock,
                   steps, lastOp, importVars, pending>>

\* The controller runs one operation at a time: between the two steps of
\* del_grade only the other client acts.
NextGrade ==
    \/ pending = None /\ \E condition \in Conditions : update_rstrts(condition)
    \/ pending = None /\ \E index \in {None} \cup {Some(i) : i \in 0..Len(filtered_rstrts)} :
                            update_cur_rstrt(index)
    \/ pending = None /\ \E g \in GradeInputs : add_grade(g[1], g[2])
    \/ \E index \in GradeIndexes : del_grade_unset(index)
    \/ del_grade_pull
    \/ read_store

SpecGrade == Init /\ [][NextGrade]_vars

\* ================================================================ claims
Docs(col) == {col[i] : i \in 1..Len(col)}

IsSearch == lastOp.op = "update_rstrts"
Returned == lastOp.raised = "none"

\* The coordinate the store holds for result-set entry e.
CoordOfEntry(e) == Find(store, e.restaurant_id)[1].address.coord

\* A coordinate that is absent, null, or has a null component.
MissingCoord(c) == c.kind # "pair" \/ c.lng = None \/ c.lat = None

\* C1: whenever cur_rstrt is not None it equals, field for field, the
\* store's document with the same restaurant_id (the date add_grade stores
\* as tm+0.0 and mirrors as tm is the same number).
C1_MirrorAgrees ==
    HasCur => /\ Find(store, CurId) # <<>>
              /\ Find(store, CurId)[1] = cur_rstrt[1]

\* C1 witness: a selected record that has been through add_grade and
\* edit_address and was last changed by edit_coord.
C1_Witness ==
    /\ HasCur
    /\ lastOp.op = "edit_coord"
    /\ cur_rstrt[1].address.building = <<"2">>
    /\ \E i \in 1..Len(cur_rstrt[1].grades) : cur_rstrt[1].grades[i].date >= StartClock

\* The selection agrees with the result set: cur_index is a position of
\* filtered_rstrts and the entry there has the id of cur_rstrt.
SelectionAgrees ==
    HasCur => /\ cur_index # None
              /\ cur_index[1] < Len(filtered_rstrts)
              /\ filtered_rstrts[cur_index[1] + 1].restaurant_id = CurId

\* C2 as stated: in every reachable state, also after update_rstrts and
\* new_rstrt with a record selected, the selection agrees with the result
\* set.
C2_Original == SelectionAgrees

\* C2 amended: update_cur_rstrt establishes the agreement of the selection
\* with the result set, and every operation other than update_rstrts and
\* new_rstrt preserves it.
C2_Amended ==
    [][ (/\ lastOp'.op \notin {"update_rstrts", "new_rstrt"}
         /\ (lastOp'.op = "update_cur_rstrt" \/ SelectionAgrees))
        => SelectionAgrees' ]_vars

\* C2 witness: a record selected at position 1 or later whose entry has
\* just been patched by edit_coord.
C2_Witness ==
    /\ HasCur
    /\ lastOp.op = "edit_coord"
    /\ cur_index # None /\ cur_index[1] >= 1
    /\ SelectionAgrees

\* C3: right after update_rstrts returns, the result set is non-decreasing
\* in dist.
C3_Sorted ==
    (IsSearch /\ Returned) =>
        \A i, j \in 1..Len(filtered_rstrts) :
            i < j => filtered_rstrts[i].dist[1] <= filtered_rstrts[j].dist[1]

\* C3 witness: a search has returned two entries of different distance in
\* the reverse of their order in the store.
C3_Witness ==
    /\ IsSearch /\ Returned
    /\ Len(filtered_rstrts) >= 2
    /\ filtered_rstrts[1].dist[1] < filtered_rstrts[2].dist[1]
    /\ filtered_rstrts[2].dist[1] < SENTINEL
    /\ \E i, j \in 1..Len(store) :
          /\ i < j
          /\ store[i].restaurant_id = filtered_rstrts[2].restaurant_id
          /\ store[j].restaurant_id = filtered_rstrts[1].restaurant_id

\* C4 as stated: a search whose query the store accepts completes normally,
\* gives every entry whose coord is absent, null or has a null component
\* the sentinel distance, and places it after every entry with another
\* distance.
C4_Original ==
    (IsSearch /\ lastOp.raised # "OperationFailure") =>
        /\ Returned
        /\ \A i \in 1..Len(filtered_rstrts) :
              MissingCoord(CoordOfEntry(filtered_rstrts[i])) =>
                  /\ filtered_rstrts[i].dist = Some(SENTINEL)
                  /\ \A j \in 1..Len(filtered_rstrts) :
                        filtered_rstrts[j].dist # Some(SENTINEL) => j < i

\* C5 as stated: after a search has returned, every entry whose coord has
\* both components as numbers, 0 included, has the geodistance to the
\* reference coordinate, and only entries with a missing coord or component
\* have the sentinel.
C5_Original ==
    (IsSearch /\ Returned) =>
        \A i \in 1..Len(filtered_rstrts) :
            LET c == CoordOfEntry(filtered_rstrts[i])
            IN IF MissingCoord(c)
               THEN filtered_rstrts[i].dist = Some(SENTINEL)
               ELSE filtered_rstrts[i].dist =
                       Some(geodistance(c.lng[1], c.lat[1], cur_coord[1], cur_coord[2]))

\* p occurs in s as a substring, letter case ignored.
IsSubstringCI(p, s) ==
    \E off \in 0..(Len(s) - Len(p)) :
        \A k \in 1..Len(p) : Lower(p[k]) = Lower(s[off + k])

ContainsAll(doc, condition) ==
    \A k \in Keys :
        Constrained(condition, k) => IsSubstringCI(condition[k][1], FieldOf(doc, k))

\* C6 as stated: after update_rstrts(condition) the ids of the result set
\* are exactly the ids of the store's records that contain every non-empty
\* key of the condition as a case-insensitive substring.
C6_Original ==
    IsSearch =>
        Ids(filtered_rstrts) =
            {d.restaurant_id : d \in {e \in Docs(store) : ContainsAll(e, lastOp.cond)}}

\* C7 as stated: update_cur_rstrt(p) with p a position of the result set
\* sets cur_index to p and cur_rstrt to the store's document with the id of
\* the entry at p; update_cur_rstrt(None) sets both to None; neither
\* changes the result set or the store.
C7_Original ==
    [][ lastOp'.op = "update_cur_rstrt" =>
          /\ store' = store
          /\ filtered_rstrts' = filtered_rstrts
          /\ lastOp'.idx = None => (cur_index' = None /\ cur_rstrt' = None)
          /\ (lastOp'.idx # None /\ lastOp'.idx[1] < Len(filtered_rstrts)) =>
                /\ cur_index' = lastOp'.idx
                /\ cur_rstrt' # None
                /\ cur_rstrt'[1] \in Docs(store)
                /\ cur_rstrt'[1].restaurant_id =
                      filtered_rstrts[lastOp'.idx[1] + 1].restaurant_id ]_vars

\* C8 as stated: update_cur_rstrt(p) with p past the end of the result set
\* does not raise and leaves cur_index and cur_rstrt None.
C8_Original ==
    (/\ lastOp.op = "update_cur_rstrt"
     /\ lastOp.idx # None
     /\ lastOp.idx[1] >= Len(filtered_rstrts))
    => (Returned /\ cur_index = None /\ cur_rstrt = None)

\* C9 as stated: after del_rstrt called with a selection, and after
\* del_all, cur_rstrt and cur_index are None.
C9_Original ==
    [][ (lastOp'.op = "del_all" \/ (lastOp'.op = "del_rstrt" /\ HasCur))
        => (cur_rstrt' = None /\ cur_index' = None) ]_vars

\* C10: del_all removes from the store exactly the records whose id is in
\* the result set and empties the result set; every other record stays as
\* it was, in place, and an unfiltered search after it returns it.
C10_DelAllFrame ==
    [][ /\ lastOp'.op = "del_all" =>
            /\ filtered_rstrts' = <<>>
            /\ Docs(store') =
                 {d \in Docs(store) : d.restaurant_id \notin Ids(filtered_rstrts)}
            /\ \A d \in Docs(store') :
                 d.restaurant_id \in Ids(SearchResult(store', NoCond, cur_coord))
        /\ (lastOp.op = "del_all" /\ lastOp'.op = "update_rstrts"
            /\ lastOp'.cond = NoCond) =>
               Ids(filtered_rstrts') = Ids(store) ]_vars

\* C10 witness: del_all after a search that matched DocA and not DocC has
\* left exactly DocC in the store.
C10_Witness ==
    /\ lastOp.op = "del_all"
    /\ store = <<DocC>>
    /\ filtered_rstrts = <<>>
\* C11 as stated: del_rstrt with a selection removes from the store exactly
\* the record with the id of cur_rstrt and leaves no entry with that id in
\* the result set; the other records are unchanged and the other entries
\* keep their order.
C11_Original ==
    [][ (lastOp'.op = "del_rstrt" /\ HasCur) =>
          /\ Docs(store') = {d \in Docs(store) : d.restaurant_id # CurId}
          /\ filtered_rstrts' =
                SelectSeq(filtered_rstrts, LAMBDA r : r.restaurant_id # CurId) ]_vars

\* The id new_rstrt has just assigned: that of the entry it put first.
NewId == filtered_rstrts[1].restaurant_id

\* C12 as stated: the id new_rstrt assigns is numerically greater than
\* every id the store held before the call.
C12_Original ==
    [][ lastOp'.op = "new_rstrt" =>
          \A d \in Docs(store) : IntOf(d.restaurant_id) < IntOf(NewId') ]_vars
\* The id after the floor, as new_rstrt writes it.
FloorNext == StrOf(IntOf(FLOOR_ID) + 1)

\* new_rstrt has just fallen back to the floor: the store was empty, or it
\* was not and the id assigned is the one after the floor (no id of the
\* store is the floor itself, so the lookup had failed).
FellBack == lastOp'.op = "new_rstrt" /\ (store = <<>> \/ NewId' = FloorNext)

\* C13 as stated: new_rstrt on an empty store, or when the lookup of the
\* maximal id fails, does not raise and inserts a record with the id after
\* the floor and the name 'untitled'.
C13_Original ==
    [][ FellBack =>
          /\ lastOp'.raised = "none"
          /\ NewId' = FloorNext
          /\ store' = Append(store, [EMPTY_RSTRT EXCEPT !.name = Untitled,
                                                        !.restaurant_id = FloorNext]) ]_vars
\* The positions of the result set that hold the id of the selected record.
CurEntries == {i \in 1..Len(filtered_rstrts) : filtered_rstrts[i].restaurant_id = CurId}

\* The ids of a result set, in its order.
IdSeq(rstrts) == [i \in 1..Len(rstrts) |-> rstrts[i].restaurant_id]

\* edit_coord has just run on a selected record; its arguments are the
\* coordinate the record now has.
EditedCoord == lastOp'.op = "edit_coord" /\ HasCur

\* C14 as stated: edit_coord(lng, lat) with both values given, 0 included,
\* on a selected record that is in the result set sets the distance of its
\* entry to geodistance(lng, lat, reference) and changes neither the order
\* of the ids nor the distance of any other entry.
C14_Original ==
    [][ (/\ EditedCoord
         /\ CurEntries # {}
         /\ cur_rstrt'[1].address.coord.lng # None
         /\ cur_rstrt'[1].address.coord.lat # None) =>
          LET c == cur_rstrt'[1].address.coord
          IN /\ IdSeq(filtered_rstrts') = IdSeq(filtered_rstrts)
             /\ \A i \in 1..Len(filtered_rstrts) :
                  IF i \in CurEntries
                  THEN filtered_rstrts'[i].dist =
                          Some(geodistance(c.lng[1], c.lat[1], cur_coord[1], cur_coord[2]))
                  ELSE filtered_rstrts'[i].dist = filtered_rstrts[i].dist ]_vars
\* C15 as stated: edit_coord on a selected record whose id is not in the
\* result set raises nothing, leaves the result set as it was, order
\* included, and changes in the store only the selected record.
C15_Original ==
    [][ (EditedCoord /\ CurEntries = {}) =>
          /\ lastOp'.raised = "none"
          /\ filtered_rstrts' = filtered_rstrts
          /\ \A d \in Docs(store) : d.restaurant_id # CurId => d \in Docs(store')
          /\ Len(store') = Len(store) ]_vars
\* The store's documents other than the selected one are in store' as
\* they were, and no document was added or removed.
OthersUnchanged ==
    /\ Len(store') = Len(store)
    /\ \A i \in 1..Len(store) :
          store[i].restaurant_id # CurId => store'[i] = store[i]

\* C16 as stated: edit_address(docs) with a selection sets the address of
\* the selected record, in the store and in cur_rstrt, to the building,
\* street and zipcode given with the coord the record had; the record's
\* other fields, the other records and the result set are unchanged.
C16_Original ==
    [][ (lastOp'.op = "edit_address" /\ HasCur) =>
          /\ lastOp'.raised = "none"
          /\ \E docs \in AddressInputs :
                cur_rstrt'[1].address =
                    [building |-> docs.building, street |-> docs.street,
                     zipcode |-> docs.zipcode,
                     coord |-> cur_rstrt[1].address.coord]
          /\ [cur_rstrt'[1] EXCEPT !.address = cur_rstrt[1].address] = cur_rstrt[1]
          /\ Find(store', CurId) = <<cur_rstrt'[1]>>
          /\ OthersUnchanged
          /\ filtered_rstrts' = filtered_rstrts ]_vars
InfoFields == {"name", "cuisine", "borough"}

\* C17: edit_info(docs) with a selection changes only the fields docs
\* gives, to the values it gives, in the store and in cur_rstrt alike; the
\* fields not given, the other records, cur_index and the result set (the
\* cached name of the entry included) are unchanged.
C17_EditInfoFrame ==
    [][ (lastOp'.op = "edit_info" /\ HasCur) =>
          /\ lastOp'.raised = "none"
          /\ \E docs \in InfoInputs :
                \A f \in InfoFields :
                    cur_rstrt'[1][f] = IF docs[f] # None THEN docs[f][1] ELSE cur_rstrt[1][f]
          /\ \A f \in (DOMAIN cur_rstrt[1]) \ InfoFields : cur_rstrt'[1][f] = cur_rstrt[1][f]
          /\ Find(store', CurId) = <<cur_rstrt'[1]>>
          /\ OthersUnchanged
          /\ cur_index' = cur_index
          /\ filtered_rstrts' = filtered_rstrts ]_vars

\* C17 witness: edit_info has given the selected record 9 a new cuisine
\* only; its name is the old one, as is the name cached in its entry.
C17_Witness ==
    /\ lastOp.op = "edit_info"
    /\ HasCur
    /\ CurId = <<9>>
    /\ cur_rstrt[1].cuisine = <<"d">>
    /\ cur_rstrt[1].name = DocA.name
    /\ \E i \in 1..Len(filtered_rstrts) :
          filtered_rstrts[i].restaurant_id = CurId /\ filtered_rstrts[i].name = DocA.name
\* The operations that need a selection.
NeedCur == {"edit_info", "edit_address", "edit_coord", "add_grade", "del_grade", "del_rstrt"}

\* C18: with cur_rstrt None, each of edit_info, edit_address, edit_coord,
\* add_grade, del_grade and del_rstrt raises nothing and leaves the store,
\* the result set, cur_index and cur_rstrt as they were.
C18_NoSelectionNoOp ==
    [][ (lastOp'.op \in NeedCur /\ ~HasCur) =>
          /\ lastOp'.raised = "none"
          /\ store' = store
          /\ filtered_rstrts' = filtered_rstrts
          /\ cur_index' = cur_index
          /\ cur_rstrt' = cur_rstrt ]_vars

\* C18 witness: del_grade has run with no record selected, over a store
\* and a result set that are not empty and a cur_index a delete has left.
C18_Witness ==
    /\ lastOp.op = "del_grade"
    /\ ~HasCur
    /\ cur_index # None
    /\ store # <<>>
    /\ filtered_rstrts # <<>>
\* The grades add_grade has written (their date is a reading of the
\* clock) are in the order of their dates.
AddedInOrder(grades) ==
    \A i, j \in 1..Len(grades) :
        (i < j /\ grades[i].date >= StartClock /\ grades[j].date >= StartClock)
            => grades[i].date < grades[j].date

\* C19: add_grade(grade, score) with a selection appends one entry, the
\* grade and score given with the time of the call as date, at the end of
\* the grades of the selected record, in the store and in cur_rstrt, the
\* earlier grades staying in their order; and in every state the grades
\* added to a record stand in the order they were added in.
C19_AddGradeAppends ==
    /\ [][ (lastOp'.op = "add_grade" /\ HasCur) =>
             /\ lastOp'.raised = "none"
             /\ \E g \in GradeInputs :
                   cur_rstrt'[1].grades =
                       cur_rstrt[1].grades \o
                           <<[grade |-> g[1], score |-> g[2], date |-> clock]>>
             /\ Find(store', CurId)[1].grades = cur_rstrt'[1].grades
             /\ Len(Find(store', CurId)[1].grades) = Len(Find(store, CurId)[1].grades) + 1 ]_vars
    /\ [](\A d \in Docs(store) : AddedInOrder(d.grades))

\* C19 witness: two grades added one after the other to record 9, which
\* had two before.
C19_Witness ==
    /\ lastOp.op = "add_grade"
    /\ HasCur
    /\ CurId = <<9>>
    /\ Len(cur_rstrt[1].grades) = 4
    /\ SubSeq(cur_rstrt[1].grades, 1, 2) = DocA.grades
    /\ cur_rstrt[1].grades[4].date > cur_rstrt[1].grades[3].date
\* C20: del_grade(i) with a selection and i a position of the grades
\* leaves cur_rstrt's grades as they were with the one at i taken out, the
\* others in their order.
C20_DelGradeRemoves ==
    [][ (/\ lastOp'.op = "del_grade"
         /\ HasCur
         /\ lastOp'.idx[1] < Len(cur_rstrt[1].grades)) =>
          LET old == cur_rstrt[1].grades
              new == cur_rstrt'[1].grades
              i == lastOp'.idx[1]
          IN /\ lastOp'.raised = "none"
             /\ Len(new) = Len(old) - 1
             /\ \A k \in 1..Len(new) : new[k] = IF k <= i THEN old[k] ELSE old[k + 1] ]_vars

\* C20 witness: del_grade(1) has taken the second of the two grades of
\* record 9.
C20_Witness ==
    /\ lastOp.op = "del_grade"
    /\ lastOp.idx = Some(1)
    /\ lastOp.raised = "none"
    /\ HasCur
    /\ CurId = <<9>>
    /\ cur_rstrt[1].grades = <<DocA.grades[1]>>
\* ------------------------------------------------------------------- C21
\* The step of the worker that inserts the batch.
InsertStep == worker = "looping" /\ line_i = Len(lines) /\ worker' = "closing"

\* The pre-existing documents are the same, in the same places.
KeepsOld == Len(store') >= Len(store) /\ SubSeq(store', 1, Len(store)) = store

\* C21: bulkImport of a batch in which some ids already exist in the store
\* or repeat within the batch raises nothing to its caller (the worker goes
\* on to close the progress), inserts a record of the batch for every id
\* that was not in the store, and leaves every pre-existing record as it
\* was, adding nothing else.
C21_ImportSkipsDuplicates ==
    /\ [][ (worker = "looping" /\ line_i = Len(lines)) => worker' # "raised" ]_vars
    /\ [][ InsertStep =>
             /\ KeepsOld
             /\ \A k \in 1..Len(import_docs) :
                   import_docs[k].restaurant_id \notin Ids(store)
                   => \E j \in (Len(store) + 1)..Len(store') :
                         /\ store'[j].restaurant_id = import_docs[k].restaurant_id
                         /\ store'[j] \in Docs(import_docs)
             /\ \A j \in (Len(store) + 1)..Len(store') :
                   /\ store'[j] \in Docs(import_docs)
                   /\ store'[j].restaurant_id \notin Ids(store)
             /\ Cardinality(Ids(store')) = Len(store') ]_vars

\* An import has left DocA in a store that the batch, which held another
\* record under DocA's id before a new one, has lengthened.
C21_Witness ==
    /\ worker = "closing"
    /\ Len(import_docs) = 2
    /\ import_docs[1].restaurant_id = DocA.restaurant_id
    /\ import_docs[1].name # DocA.name
    /\ DocA \in Docs(store)
    /\ import_docs[2] \in Docs(store)
\* ------------------------------------------------------------------- C22
\* The worker thread has ended: it has returned or an exception has ended it.
WorkerStopped == worker \in {"returned", "raised"}

\* C22: once bulkImport runs on its worker, whatever the input, the worker
\* never stops while the progress is still in a running state (so that the
\* progress reaches done and the polling loop ends).
C22_Original == WorkerStopped => progress.state
\* ------------------------------------------------------------------- C23
\* p comes no later than q in the order idle, running with a growing
\* fraction, done.
ProgressLeq(p, q) ==
    /\ p.state => q.state
    /\ p.rate[1] * q.rate[2] <= q.rate[1] * p.rate[2]

\* Not done with a fraction in [0, 1), or done with the fraction 1.
ProgressShape(p) ==
    IF p.state THEN p.rate = <<1, 1>>
    ELSE 0 <= p.rate[1] /\ p.rate[1] < p.rate[2]

\* C23: during one import (no new init_progress), the progress the worker
\* publishes and the progress the polling loop reads only move forward,
\* from (not done, 0) over running fractions in [0, 1) that never decrease
\* to (done, 1): done is never followed by not done, and done never comes
\* with a fraction other than 1.
C23_ProgressForward ==
    /\ [][ imports' = imports => ProgressLeq(progress, progress') ]_vars
    /\ [][ (imports' = imports /\ observed # None /\ observed' # None)
           => ProgressLeq(observed[1], observed'[1]) ]_vars
    /\ [](ProgressShape(progress) /\ (observed # None => ProgressShape(observed[1])))

\* The polling loop of a second import has read a running fraction above 0.
C23_Witness ==
    /\ imports = 2
    /\ observed # None
    /\ ~observed[1].state
    /\ observed[1].rate[1] > 0
\* ------------------------------------------------------------------- C24
\* C24: when edit_coord is driven by the coordinate-edit callback of the
\* presentation layer, every record's address.coord, in the store and in
\* cur_rstrt, has both longitude and latitude or neither (edit_coord is
\* never called with exactly one of them null).
C24_Original ==
    /\ \A i \in 1..Len(store) : Paired(store[i].address.coord)
    /\ HasCur => Paired(cur_rstrt[1].address.coord)
\* ------------------------------------------------------------------- C25
\* C25: every mutating operation writes the store before it patches the
\* memory, so that an operation whose store write fails leaves the result
\* set and cur_rstrt as they were.
C25_Original ==
    [][ lastOp'.raised = "DuplicateKeyError"
        => (filtered_rstrts' = filtered_rstrts /\ cur_rstrt' = cur_rstrt) ]_vars
\* ------------------------------------------------------------------- C26
\* The grades with a null at position i, and with position i taken out.
NulledAt(grades, i) == [grades EXCEPT ![i + 1] = NullGrade]
WithoutAt(grades, i) == SubSeq(grades, 1, i) \o SubSeq(grades, i + 2, Len(grades))

\* del_grade is between its two store steps, on a position the grades have.
Halfway == pending # None /\ pending[1].index < Len(pending[1].before)

\* C26: removeGrade(i) is two store steps. What a reader reads before the
\* first is the original sequence; between the two, as long as the store
\* is, the original sequence with a null at position i and the original
\* length; after the second the store holds the original sequence without
\* position i, in the original order. A read gives nothing else.
C26_TwoSteps ==
    /\ [](Halfway => StoredGrades = NulledAt(pending[1].before, pending[1].index))
    /\ [][ (Halfway /\ read_grades' # read_grades)
           => read_grades' = Some(NulledAt(pending[1].before, pending[1].index)) ]_vars
    /\ [][ (pending = None /\ pending' # None)
           => (pending'[1].before = StoredGrades
               /\ (read_grades' # read_grades => read_grades' = Some(StoredGrades))) ]_vars
    /\ [][ (Halfway /\ pending' = None)
           => StoredGrades' = WithoutAt(pending[1].before, pending[1].index) ]_vars

\* Between the two steps of del_grade(1) on three grades a reader has read
\* the three positions with the null in the middle.
C26_Witness ==
    /\ Halfway
    /\ pending[1].index = 1
    /\ Len(pending[1].before) = 3
    /\ read_grades = Some(NulledAt(pending[1].before, 1))
\* ------------------------------------------------------------------- C27
\* Entry e is what a search under condition derives from a record of the
\* store: its id and name, and its distance unless the loop has stopped
\* before it.
Rederived(e, condition) ==
    \E d \in Docs(store) :
        /\ d.restaurant_id = e.restaurant_id
        /\ d.name = e.name
        /\ Matches(d, condition)
        /\ e.dist \in {None, Some(DistOf(d.address.coord, cur_coord))}

\* C27: search replaces the result set wholesale, no entry of the previous
\* result set surviving except as derived anew from the store, and changes
\* neither the store nor cur_index nor cur_rstrt.
C27_Original ==
    [][ lastOp'.op = "update_rstrts"
        => /\ store' = store
           /\ cur_index' = cur_index
           /\ cur_rstrt' = cur_rstrt
           /\ Len(filtered_rstrts') = Len(FindMatching(store, lastOp'.cond))
           /\ \A k \in 1..Len(filtered_rstrts') :
                 Rederived(filtered_rstrts'[k], lastOp'.cond) ]_vars
\* ------------------------------------------------------------------- C28
\* C28: whatever the sequence of searches, creations, deletions and edits
\* (and no other writer), the ids of the entries of the result set are
\* pairwise distinct and each is the id of a record of the store, also
\* when the store rejects the insert of a creation.
C28_Original ==
    /\ \A i, j \in 1..Len(filtered_rstrts) :
          filtered_rstrts[i].restaurant_id = filtered_rstrts[j].restaurant_id => i = j
    /\ \A i \in 1..Len(filtered_rstrts) : filtered_rstrts[i].restaurant_id \in Ids(store)

====
